---- MODULE Spec2Model ----
(***************************************************************************)
(* A model of the mock-interview web application (src/app.py): the tables  *)
(* User, Interview and Attempt, the static Subject/Question reference      *)
(* data, the cookie-backed Flask session of one browser, and one action    *)
(* per route handler.  Every handler runs to completion as one step.       *)
(*                                                                         *)
(* Strings the handlers inspect (passwords, answers, model answers) are    *)
(* sequences of characters; nullable columns hold NULL (<<>>) or a         *)
(* one-element sequence Some(v).  Similarities are in millionths and       *)
(* similarity_score is in hundredths of a percent, so round(s * 100, 2)    *)
(* is an integer computation.                                              *)
(***************************************************************************)
EXTENDS Integers, Sequences, FiniteSets, TLC

VARIABLES
    users,        \* table user: sequence of [email, password_hash], id = position
    interviews,   \* table interview: sequence of [user_id], id = position
    attempts,     \* table attempt: sequence of rows, id = position
    session,      \* the browser's Flask session: a function on the keys present
    request,      \* the request being answered: its endpoint and method
    response,     \* the response the handler returned, with the message it flashed
    summarized    \* history: the interview ids interview_summary has processed, in order

vars == <<users, interviews, attempts, session, request, response, summarized>>

----------------------------------------------------------------------------
(* Bounds of the model *)

MaxUsers == 2
MaxInterviews == 2
MaxAttempts == 2
NumQuestions == 3
NumSubjects == 3
MaxSelected == 1

(* Program constants *)

MinPasswordLength == 6
QuestionLimit == 10

----------------------------------------------------------------------------
(* Values *)

NULL == <<>>
Some(v) == <<v>>

Rep(c, n) == [i \in 1..n |-> c]

Strong == Rep("a", MinPasswordLength)
Short == Rep("a", MinPasswordLength - 1)
Blank == Rep(" ", MinPasswordLength)
Passwords == {Strong, Short, Blank}

Emails == {<<"a", "@", "x">>, <<"b", "@", "x">>, <<"a", "x">>}

Answers == {<<>>, <<" ">>, <<"x", "y">>, <<"x", "y", "z">>}

Methods == {"GET", "POST"}

----------------------------------------------------------------------------
(* Static reference data: subjects and questions.  The last subject has no *)
(* question; model answers cycle through a text, NULL and the empty text.  *)

Subjects == 1..NumSubjects
Questions == 1..NumQuestions
SubjectChoices == Subjects \cup {NumSubjects + 1}   \* one id that is no Subject row

\* what a submission of the subject form may tick
Selections == {S \in SUBSET SubjectChoices : Cardinality(S) <= MaxSelected}

Question(q) ==
    [id |-> q,
     subject_id |-> ((q - 1) % (NumSubjects - 1)) + 1,
     model_answer |-> CASE q % 3 = 1 -> Some(<<"x", "y", "z">>)
                        [] q % 3 = 2 -> NULL
                        [] OTHER -> Some(<<>>)]

----------------------------------------------------------------------------
(* WTForms validators and werkzeug password hashing *)

IsSpace(c) == c = " "

RECURSIVE strip(_)
strip(s) ==
    IF s = <<>> THEN s
    ELSE IF IsSpace(Head(s)) THEN strip(Tail(s))
    ELSE IF IsSpace(s[Len(s)]) THEN strip(SubSeq(s, 1, Len(s) - 1))
    ELSE s

\* DataRequired on a string field: the data is truthy and not only whitespace
DataRequired(s) == s # <<>> /\ strip(s) # <<>>

\* DataRequired on the multiple-select field: at least one value
DataRequiredList(S) == S # {}

Length(s, min) == Len(s) >= min

EqualTo(s, other) == s = other

\* Email: one "@" with a local part before it and a domain after it
Email(e) ==
    \E i \in 2..(Len(e) - 1) :
        /\ e[i] = "@"
        /\ \A j \in 1..Len(e) : e[j] = "@" => j = i

\* defective variant: only subjects that have a Question are among the choices
ChoicesWithQuestions(S) == S \subseteq {Question(q).subject_id : q \in Questions}

\* the multiple-select field accepts only values among its choices
ValidChoices(S) == S \subseteq Subjects

\* the digest stored as password_hash; hashing itself is the library's
Digest(password) == <<"$">> \o password

generate_password_hash(password) == Digest(password)

\* defective variant: the stored value compared with the password itself
PlainCompare(pwhash, password) == pwhash = password

check_password_hash(pwhash, password) == Digest(password) = pwhash

\* defective variant: any password accepted for a known user
AnyPassword(user, password) == TRUE

check_password(user, password) == check_password_hash(user.password_hash, password)

----------------------------------------------------------------------------
(* The session cookie and Flask-Login *)

EmptySession == [k \in {} |-> NULL]

SessionSet(s, key, value) == [k \in DOMAIN s \cup {key} |-> IF k = key THEN value ELSE s[k]]

\* defective variant: the key stays in the session
KeepSession(s, key) == s

SessionPop(s, key) == [k \in DOMAIN s \ {key} |-> s[k]]

is_authenticated == "_user_id" \in DOMAIN session

\* current_user.id, through load_user; 0 stands for the anonymous user
current_user_id == IF is_authenticated THEN session["_user_id"] ELSE 0

login_user(s, uid) == SessionSet(s, "_user_id", uid)

logout_user(s) == SessionPop(s, "_user_id")

----------------------------------------------------------------------------
(* Requests and responses.  A redirect to interview_question carries the     *)
(* question_index as Some(i); every other response has index NULL.           *)

Request(endpoint, method) == [endpoint |-> endpoint, method |-> method]

Redirect(to, index, flash) == [kind |-> "redirect", to |-> to, index |-> index, flash |-> flash]

Render(template, flash) == [kind |-> "render", to |-> template, index |-> NULL, flash |-> flash]

ServerError == [kind |-> "error", to |-> "500", index |-> NULL, flash |-> ""]

\* login_required when the requester is anonymous: LoginManager.unauthorized
Unauthorized == Redirect("login", NULL, "Please log in to access this page.")

----------------------------------------------------------------------------
Init ==
    /\ users = <<>>
    /\ interviews = <<>>
    /\ attempts = <<>>
    /\ session = EmptySession
    /\ request = Request("index", "GET")
    /\ response = Render("index.html", "")
    /\ summarized = <<>>

UserByEmail(email) == {i \in 1..Len(users) : users[i].email = email}

\* User.query.filter_by(email=...).first(): the user's id, 0 when there is none
FirstUserByEmail(email) ==
    IF UserByEmail(email) = {} THEN 0
    ELSE CHOOSE i \in UserByEmail(email) : \A j \in UserByEmail(email) : i <= j

register(method, email, password, confirm_password) ==
    /\ request' = Request("register", method)
    /\ UNCHANGED <<interviews, attempts, session, summarized>>
    /\ IF is_authenticated
       THEN /\ response' = Redirect("dashboard", NULL, "")
            /\ UNCHANGED users
       ELSE IF /\ method = "POST"
               /\ DataRequired(email) /\ Email(email)
               /\ DataRequired(password) /\ Length(password, MinPasswordLength)
               /\ DataRequired(confirm_password) /\ EqualTo(confirm_password, password)
       THEN IF UserByEmail(email) # {}
            THEN \* the unique constraint on user.email fails the commit
                 /\ response' = ServerError
                 /\ UNCHANGED users
            ELSE /\ Len(users) < MaxUsers
                 /\ users' = Append(users, [email |-> email,
                                   password_hash |-> generate_password_hash(password)])
                 /\ response' = Redirect("login", NULL, "Registration successful! Please log in.")
       ELSE /\ response' = Render("register.html", "")
            /\ UNCHANGED users

login(method, email, password) ==
    /\ request' = Request("login", method)
    /\ UNCHANGED <<users, interviews, attempts, summarized>>
    /\ IF is_authenticated
       THEN /\ response' = Redirect("dashboard", NULL, "")
            /\ UNCHANGED session
       ELSE IF /\ method = "POST"
               /\ DataRequired(email) /\ Email(email)
               /\ DataRequired(password)
       THEN LET user == FirstUserByEmail(email) IN
            IF user # 0 /\ check_password(users[user], password)
            THEN /\ session' = login_user(session, user)
                 /\ response' = Redirect("dashboard", NULL, "")
            ELSE /\ response' = Render("login.html", "Invalid email or password.")
                 /\ UNCHANGED session
       ELSE /\ response' = Render("login.html", "")
            /\ UNCHANGED session

logout ==
    /\ request' = Request("logout", "GET")
    /\ session' = logout_user(session)
    /\ response' = Redirect("index", NULL, "")
    /\ UNCHANGED <<users, interviews, attempts, summarized>>

----------------------------------------------------------------------------
(* Starting an interview *)

\* the sequences of n distinct elements of S
RECURSIVE Arrangements(_, _)
Arrangements(S, n) ==
    IF n = 0 THEN {<<>>}
    ELSE UNION {{<<x>> \o t : t \in Arrangements(S \ {x}, n - 1)} : x \in S}

Min(a, b) == IF a <= b THEN a ELSE b

\* defective variant: the subject filter left out
AllQuestions(selected_subject_ids) == Questions

\* Question.subject_id.in_(selected_subject_ids)
QuestionsOf(selected_subject_ids) ==
    {q \in Questions : Question(q).subject_id \in selected_subject_ids}

\* .order_by(random()).limit(10).all(): every order of every choice can come out
Sample(selected_subject_ids) ==
    LET candidates == QuestionsOf(selected_subject_ids)
    IN  Arrangements(candidates, Min(Cardinality(candidates), QuestionLimit))

dashboard(method, subjects) ==
    /\ request' = Request("dashboard", method)
    /\ UNCHANGED <<users, attempts, summarized>>
    /\ IF ~is_authenticated
       THEN /\ response' = Unauthorized
            /\ UNCHANGED <<interviews, session>>
       ELSE IF method = "POST" /\ DataRequiredList(subjects) /\ ValidChoices(subjects)
       THEN /\ Len(interviews) < MaxInterviews
            /\ interviews' = Append(interviews, [user_id |-> current_user_id])
            /\ LET new_interview == Len(interviews) + 1 IN
               \E question_ids \in Sample(subjects) :
                  IF question_ids = <<>>
                  THEN /\ response' = Redirect("dashboard", NULL,
                              "No questions found for the selected subjects. Please try other subjects.")
                       /\ UNCHANGED session
                  ELSE /\ session' = SessionSet(SessionSet(session, "interview_id", new_interview),
                                                "question_ids", question_ids)
                       /\ response' = Redirect("interview_question", Some(0), "")
       ELSE /\ response' = Render("dashboard.html", "")
            /\ UNCHANGED <<interviews, session>>

----------------------------------------------------------------------------
(* Answering *)

\* defective variant: the two ids passed in each other's place
SwappedAttempt(interview_id, question_id, user_answer) ==
    [interview_id |-> question_id, question_id |-> interview_id, user_answer |-> user_answer,
     similarity_score |-> NULL, feedback |-> NULL]

NewAttempt(interview_id, question_id, user_answer) ==
    [interview_id |-> interview_id, question_id |-> question_id, user_answer |-> user_answer,
     similarity_score |-> NULL, feedback |-> NULL]

interview_question(method, question_index, answer) ==
    /\ request' = Request("interview_question", method)
    /\ UNCHANGED <<users, interviews, session, summarized>>
    /\ IF ~is_authenticated
       THEN /\ response' = Unauthorized
            /\ UNCHANGED attempts
       ELSE IF "question_ids" \notin DOMAIN session
       THEN /\ response' = Redirect("dashboard", NULL,
                                    "Interview session not found. Please start a new one.")
            /\ UNCHANGED attempts
       ELSE LET question_ids == session["question_ids"] IN
            IF question_index >= Len(question_ids)
            THEN /\ response' = Redirect("interview_summary", NULL, "")
                 /\ UNCHANGED attempts
            ELSE LET question_id == question_ids[question_index + 1]   \* 0-based index
                     next_q_idx == question_index + 1
                 IN  IF method = "POST" /\ DataRequired(answer)
                     THEN /\ Len(attempts) < MaxAttempts
                          /\ attempts' = Append(attempts,
                                 NewAttempt(session["interview_id"], question_id, answer))
                          /\ response' = IF next_q_idx < Len(question_ids)
                                         THEN Redirect("interview_question", Some(next_q_idx), "")
                                         ELSE Redirect("interview_summary", NULL, "")
                     ELSE /\ response' = Render("interview_questions.html", "")
                          /\ UNCHANGED attempts

----------------------------------------------------------------------------
(* Scoring *)

Chars(s) == {s[i] : i \in 1..Len(s)}

Max(a, b) == IF a >= b THEN a ELSE b

\* doc_user.similarity(doc_model), in millionths.  The library's vector similarity
\* is represented by the share of the longer text's characters the two texts have in
\* common: a function of the two texts with values from 0 to 1
similarity(user_answer, model_answer) ==
    (Cardinality(Chars(user_answer) \cap Chars(model_answer)) * 1000000)
        \div Max(1, Max(Cardinality(Chars(user_answer)), Cardinality(Chars(model_answer))))

\* round(similarity * 100, 2), in hundredths of a percent
Round2Percent(sim) == (sim + 50) \div 100

Feedback(sim) ==
    IF sim > 850000
    THEN "Excellent! Your answer is very closely aligned with the key concepts."
    ELSE IF sim > 600000
    THEN "Good answer. You've covered the main points, but could add more detail."
    ELSE "There seems to be a disconnect. Review the topic to better align with the core concepts."

\* defective variant: only None counts as missing
NotNone(text) == text # NULL

\* Python truthiness of the nullable text column
Truthy(text) == text # NULL /\ text[1] # <<>>

NoModelAnswer == "No model answer available to compare against."

\* the body of the loop over interview.attempts, for a question with this model answer
ScoreAgainst(attempt, model_answer) ==
    IF Truthy(model_answer)
    THEN LET sim == similarity(attempt.user_answer, model_answer[1]) IN
         [attempt EXCEPT !.similarity_score = Some(Round2Percent(sim)),
                         !.feedback = Some(Feedback(sim))]
    ELSE [attempt EXCEPT !.similarity_score = Some(0),
                         !.feedback = Some(NoModelAnswer)]

\* defective variant: an Attempt that has a score keeps it
KeepScored(attempt) ==
    IF attempt.similarity_score # NULL THEN attempt
    ELSE ScoreAgainst(attempt, Question(attempt.question_id).model_answer)

ScoreAttempt(attempt) == ScoreAgainst(attempt, Question(attempt.question_id).model_answer)

\* defective variant: every Attempt scored, whatever its interview
ScoreEveryRow(rows, interview_id) ==
    [i \in 1..Len(rows) |->
        ScoreAgainst(rows[i], Question(rows[i].question_id).model_answer)]

ScoreInterview(rows, interview_id) ==
    [i \in 1..Len(rows) |->
        IF rows[i].interview_id = interview_id THEN ScoreAttempt(rows[i]) ELSE rows[i]]

interview_summary ==
    /\ request' = Request("interview_summary", "GET")
    /\ UNCHANGED <<users, interviews>>
    /\ IF ~is_authenticated
       THEN /\ response' = Unauthorized
            /\ UNCHANGED <<attempts, session, summarized>>
       ELSE LET interview_id == IF "interview_id" \in DOMAIN session
                                THEN session["interview_id"] ELSE 0
            IN  /\ session' = SessionPop(SessionPop(session, "interview_id"), "question_ids")
                /\ IF interview_id = 0
                   THEN /\ response' = Redirect("dashboard", NULL,
                                                "Could not find an interview to summarize.")
                        /\ UNCHANGED <<attempts, summarized>>
                   ELSE /\ attempts' = ScoreInterview(attempts, interview_id)
                        /\ summarized' = Append(summarized, interview_id)
                        /\ response' = Render("interview_summary.html", "")

----------------------------------------------------------------------------
Indexes == 0..NumQuestions

\* a GET carries no form data
Form(method, values) == IF method = "GET" THEN {<<>>} ELSE values

Next ==
    \/ \E method \in Methods :
          \E email \in Form(method, Emails), password \in Form(method, Passwords) :
             \E confirm_password \in {password} \cup Form(method, {Strong}) :
                register(method, email, password, confirm_password)
    \/ \E method \in Methods :
          \E email \in Form(method, Emails), password \in Form(method, Passwords) :
                login(method, email, password)
    \/ logout
    \/ \E method \in Methods :
          \E subjects \in IF method = "GET" THEN {{}} ELSE Selections :
                dashboard(method, subjects)
    \/ \E method \in Methods, question_index \in Indexes :
          \E answer \in Form(method, Answers) :
                interview_question(method, question_index, answer)
    \/ interview_summary

Spec == Init /\ [][Next]_vars

----------------------------------------------------------------------------
(* Shorthands for the properties *)

HasInterview == "question_ids" \in DOMAIN session

AttemptIds == 1..Len(attempts)

AttemptsOf(interview_id) == {k \in AttemptIds : attempts[k].interview_id = interview_id}

Summarized == {summarized[n] : n \in 1..Len(summarized)}

HasModelAnswer(q) == Question(q).model_answer # NULL /\ Question(q).model_answer # Some(<<>>)

\* C8: in every reachable state, an Attempt whose interview interview_summary has
\* not yet processed has similarity_score = NULL and feedback = NULL.
C8_UnscoredUntilSummary ==
    \A k \in AttemptIds :
        attempts[k].interview_id \notin Summarized =>
            attempts[k].similarity_score = NULL /\ attempts[k].feedback = NULL

\* an unscored Attempt of an interview in progress beside a scored one of a summarized interview
C8_Witness ==
    \E k, l \in AttemptIds :
        /\ attempts[k].interview_id \notin Summarized
        /\ attempts[l].interview_id \in Summarized
        /\ attempts[l].similarity_score # NULL

\* C4: every Attempt scored by interview_summary whose Question has no model_answer
\* (NULL or empty) has similarity_score = 0 and the fixed fallback feedback,
\* whatever the answer was.
C4_NoModelAnswerScoresZero ==
    \A k \in AttemptIds :
        attempts[k].interview_id \in Summarized /\ ~HasModelAnswer(attempts[k].question_id) =>
            /\ attempts[k].similarity_score = Some(0)
            /\ attempts[k].feedback = Some("No model answer available to compare against.")

\* scored Attempts with different answers, one to a question with a NULL model answer
\* and one to a question with an empty one
C4_Witness ==
    \E k, l \in AttemptIds :
        /\ attempts[k].interview_id \in Summarized
        /\ attempts[l].interview_id \in Summarized
        /\ Question(attempts[k].question_id).model_answer = NULL
        /\ Question(attempts[l].question_id).model_answer = Some(<<>>)
        /\ attempts[k].user_answer # attempts[l].user_answer
        /\ attempts[k].similarity_score = Some(0)

\* C10: whenever interview_question creates an Attempt, the Interview it is
\* recorded under belongs to the currently authenticated user.
C10_AttemptUnderOwnInterview ==
    [][Len(attempts') > Len(attempts) =>
          interviews[attempts'[Len(attempts')].interview_id].user_id = current_user_id]_vars

----------------------------------------------------------------------------
(* C1 *)

RedirectToSummary == Redirect("interview_summary", NULL, "")

\* the POST of answer to index i recorded one Attempt for the session's interview and
\* its i-th question, and redirected to the next index or, after the last, to the summary
Recorded(i, answer) ==
    /\ Len(attempts') = Len(attempts) + 1
    /\ \A k \in AttemptIds : attempts'[k] = attempts[k]
    /\ attempts'[Len(attempts')].interview_id = session["interview_id"]
    /\ attempts'[Len(attempts')].question_id = session["question_ids"][i + 1]
    /\ attempts'[Len(attempts')].user_answer = answer
    /\ response' = IF i + 1 < Len(session["question_ids"])
                   THEN Redirect("interview_question", Some(i + 1), "")
                   ELSE RedirectToSummary

\* an interview enters the session with no Attempt recorded under it
StartsEmpty ==
    (HasInterview' /\ (~HasInterview \/ session'["interview_id"] # session["interview_id"])) =>
        \A k \in 1..Len(attempts') : attempts'[k].interview_id # session'["interview_id"]

NonBlank(s) == \E k \in 1..Len(s) : s[k] # " "

\* C1 as stated: every POST of a non-empty answer to an index i < N of the active
\* interview records one Attempt with question_id = q[i] under the session's interview
\* and redirects to i+1, or to the summary after the last (so N such POSTs in order
\* leave exactly N Attempts, the i-th for q[i]).
C1_Original ==
    [][/\ StartsEmpty
       /\ \A i \in Indexes, a \in Answers :
            (/\ request' = Request("interview_question", "POST")
             /\ HasInterview
             /\ i < Len(session["question_ids"])
             /\ a # <<>>
             /\ interview_question("POST", i, a)) => Recorded(i, a)]_vars

\* C1 amended: the same for every POST, by the logged-in user, of an answer that
\* holds a character other than whitespace.
C1_AnswersRecordedInOrder ==
    [][/\ StartsEmpty
       /\ \A i \in Indexes, a \in Answers :
            (/\ request' = Request("interview_question", "POST")
             /\ HasInterview
             /\ is_authenticated
             /\ i < Len(session["question_ids"])
             /\ NonBlank(a)
             /\ interview_question("POST", i, a)) => Recorded(i, a)]_vars

\* all N >= 2 questions of the active interview answered in order: exactly N Attempts,
\* the i-th for q[i], and the last POST redirected to the summary
C1_Witness ==
    /\ HasInterview
    /\ Len(session["question_ids"]) >= 2
    /\ response = RedirectToSummary
    /\ Len(attempts) = Len(session["question_ids"])
    /\ \A k \in AttemptIds :
          /\ attempts[k].interview_id = session["interview_id"]
          /\ attempts[k].question_id = session["question_ids"][k]

----------------------------------------------------------------------------
(* C2 *)

\* an Attempt for the last question of the session's interview is on record
FinalAnswered ==
    \E k \in AttemptsOf(session["interview_id"]) :
        attempts[k].question_id = session["question_ids"][Len(session["question_ids"])]

\* the request just answered started the session's interview: nothing was answered
\* or requested for it yet
JustStarted == HasInterview /\ response = Redirect("interview_question", Some(0), "")

\* C2 as stated: an in-progress interview becomes Summarized only after an answer for
\* its final index has been recorded or an index >= N has been requested; so not by
\* the first request after its start, with no answer on record.
C2_Original ==
    [][summarized' # summarized => FinalAnswered \/ ~JustStarted]_vars

\* C2 amended: the flow is NoSession -> InProgress -> Summarized; an interview becomes
\* Summarized only by interview_summary, requested by the logged-in user while the
\* session holds it, which clears the session; the application redirects to the
\* summary only when an answer for the final index N-1 was just recorded or an index
\* >= N was requested, but a direct request for the summary is honoured at any index.
C2_SummarizedOnlyBySummary ==
    [][/\ summarized' # summarized =>
            /\ request' = Request("interview_summary", "GET")
            /\ is_authenticated /\ HasInterview
            /\ summarized' = Append(summarized, session["interview_id"])
            /\ ~HasInterview'
       /\ response' = RedirectToSummary =>
            /\ HasInterview
            /\ request'.endpoint = "interview_question"
            /\ \E m \in Methods, i \in Indexes, a \in Answers :
                  /\ interview_question(m, i, a)
                  /\ \/ i >= Len(session["question_ids"])
                     \/ i = Len(session["question_ids"]) - 1 /\ Len(attempts') = Len(attempts) + 1
       /\ (~HasInterview /\ HasInterview') => session'["interview_id"] \notin Summarized']_vars

\* an interview with answers on record has been summarized: the summary page is
\* rendered, the session no longer holds the interview and every Attempt is scored
C2_Witness ==
    /\ summarized # <<>>
    /\ ~HasInterview
    /\ response = Render("interview_summary.html", "")
    /\ attempts # <<>>
    /\ \A k \in AttemptIds : attempts[k].similarity_score # NULL

----------------------------------------------------------------------------
(* C3 *)

NoQuestions == "No questions found for the selected subjects. Please try other subjects."

\* C3 as stated: a dashboard submission of subjects without any Question redirects
\* to the dashboard with the "no questions" message and leaves the Attempts as they were.
C3_Original ==
    [][\A S \in Selections :
          (/\ request' = Request("dashboard", "POST")
           /\ S # {} /\ S \subseteq Subjects
           /\ \A q \in Questions : Question(q).subject_id \notin S
           /\ dashboard("POST", S)) =>
                /\ response' = Redirect("dashboard", NULL, NoQuestions)
                /\ attempts' = attempts]_vars

\* C3 amended: the same for a submission by a logged-in user.
C3_NoQuestionsNoAttempts ==
    [][\A S \in Selections :
          (/\ request' = Request("dashboard", "POST")
           /\ S # {} /\ S \subseteq Subjects
           /\ is_authenticated
           /\ \A q \in Questions : Question(q).subject_id \notin S
           /\ dashboard("POST", S)) =>
                /\ response' = Redirect("dashboard", NULL, NoQuestions)
                /\ attempts' = attempts]_vars

\* the "no questions" redirect, answered while Attempts are on record
C3_Witness ==
    /\ response = Redirect("dashboard", NULL, NoQuestions)
    /\ attempts # <<>>

----------------------------------------------------------------------------
(* C6, C7 *)

\* a User with this email whose stored hash is the hash of this password
Registered(email, password) ==
    \E u \in 1..Len(users) :
        users[u].email = email /\ users[u].password_hash = generate_password_hash(password)

InvalidLogin == "Invalid email or password."

\* C6 as stated: after a login submission whose email matches no User or whose
\* password does not match, the requester is not authenticated, no login session is
\* created, and the authentication state and the stored data are as before.
C6_Original ==
    [][\A e \in Emails, p \in Passwords :
          (/\ request' = Request("login", "POST")
           /\ ~Registered(e, p)
           /\ login("POST", e, p)) =>
                /\ ~is_authenticated'
                /\ session' = session
                /\ UNCHANGED <<users, interviews, attempts>>]_vars

\* C6 amended: such a submission leaves the authentication state and the stored data
\* as they were: a requester who was not authenticated is not authenticated
\* afterwards and no login session is created; one who was already authenticated
\* stays so (the handler redirects to the dashboard without reading the form).
C6_BadLoginChangesNothing ==
    [][\A e \in Emails, p \in Passwords :
          (/\ request' = Request("login", "POST")
           /\ ~Registered(e, p)
           /\ login("POST", e, p)) =>
                /\ ~is_authenticated => ~is_authenticated'
                /\ session' = session
                /\ UNCHANGED <<users, interviews, attempts>>
                /\ response'.flash \in {InvalidLogin, ""}]_vars

\* a rejected login: the message flashed, a User on record, nobody logged in
C6_Witness ==
    /\ response = Render("login.html", InvalidLogin)
    /\ users # <<>>
    /\ ~is_authenticated

\* the anonymous submission of a well-formed registration creates the User
RegistrationCreates ==
    \A e \in Emails, p \in Passwords :
        (/\ request' = Request("register", "POST")
         /\ ~is_authenticated
         /\ Email(e) /\ UserByEmail(e) = {}
         /\ Len(p) >= MinPasswordLength /\ NonBlank(p)
         /\ register("POST", e, p, p)) =>
              /\ Len(users') = Len(users) + 1
              /\ Registered(e, p)'

\* C7 as stated: once a registration has put an email and password on record, any
\* later login submission with them authenticates the requester as that user.
C7_Original ==
    [][\A e \in Emails, p \in Passwords :
          (/\ request' = Request("login", "POST")
           /\ Registered(e, p)
           /\ login("POST", e, p)) =>
                /\ is_authenticated'
                /\ users[session'["_user_id"]].email = e]_vars

\* C7 amended: a registration submitted while not logged in, with a valid unused
\* email and a password of at least 6 characters that are not all whitespace (and a
\* matching confirmation), creates the User; and any later login submission with that
\* email and password by a requester who is not already authenticated authenticates
\* the requester as that user.
C7_RegisteredCanLogin ==
    [][/\ RegistrationCreates
       /\ \A e \in Emails, p \in Passwords :
            (/\ request' = Request("login", "POST")
             /\ ~is_authenticated
             /\ Registered(e, p)
             /\ login("POST", e, p)) =>
                /\ is_authenticated'
                /\ users[session'["_user_id"]].email = e
                /\ response' = Redirect("dashboard", NULL, "")]_vars

\* the user registered second is the one logged in
C7_Witness ==
    /\ Len(users) = 2
    /\ is_authenticated
    /\ session["_user_id"] = 2

----------------------------------------------------------------------------
(* C9 *)

\* the interview part of the session
InterviewData == [k \in DOMAIN session \cap {"interview_id", "question_ids"} |-> session[k]]

WellFormedSequence(question_ids) ==
    /\ Len(question_ids) >= 1 /\ Len(question_ids) <= 10
    /\ \A i, j \in 1..Len(question_ids) : question_ids[i] = question_ids[j] => i = j
    /\ \A i \in 1..Len(question_ids) : question_ids[i] \in Questions

----------------------------------------------------------------------------
(* C5: the summary step run on tables that may already hold scores.            *)
(* The session lives in a cookie the client holds, so a summary request may    *)
(* carry a session issued before an earlier summary of the same interview;     *)
(* and a Question's model answer is reference data that may have been edited   *)
(* since, so a score on record may be one computed against another model       *)
(* answer.  SpecSummary starts interview_summary from every such table.        *)

ValidAnswers == {a \in Answers : DataRequired(a)}

ModelAnswers == {Question(q).model_answer : q \in Questions}

\* an Attempt row as it may be stored: unscored, or scored by an earlier summary
StoredRows ==
    UNION {{NewAttempt(i, q, a)} \cup {ScoreAgainst(NewAttempt(i, q, a), m) : m \in ModelAnswers} :
              i \in 1..MaxInterviews, q \in Questions, a \in ValidAnswers}

SeqsUpTo(S, n) == UNION {[1..m -> S] : m \in 0..n}

\* the interviews with a score on record, in id order
ScoredInterviews(rows) ==
    SelectSeq([i \in 1..MaxInterviews |-> i],
              LAMBDA i : \E k \in 1..Len(rows) :
                            rows[k].interview_id = i /\ rows[k].similarity_score # NULL)

\* what a started interview leaves in the session of its user
StartedSessions ==
    {[_user_id |-> 1, interview_id |-> i, question_ids |-> question_ids] :
        i \in 1..MaxInterviews,
        question_ids \in UNION {Sample(S) \ {<<>>} : S \in {T \in Selections : ValidChoices(T)}}}

InitSummary ==
    /\ users = <<[email |-> <<"a", "@", "x">>, password_hash |-> generate_password_hash(Strong)]>>
    /\ interviews = [i \in 1..MaxInterviews |-> [user_id |-> 1]]
    /\ session \in StartedSessions
    /\ attempts \in SeqsUpTo(StoredRows, MaxAttempts)
    \* the answers of the session's interview are answers to its questions
    /\ \A k \in 1..Len(attempts) :
          attempts[k].interview_id = session["interview_id"] =>
              \E n \in 1..Len(session["question_ids"]) :
                  attempts[k].question_id = session["question_ids"][n]
    /\ request = Request("interview_question", "POST")
    /\ response = Redirect("interview_summary", NULL, "")
    /\ summarized = ScoredInterviews(attempts)

SpecSummary == InitSummary /\ [][interview_summary]_vars

\* the row as scoring leaves it: its score and feedback are those of its answer
\* against its question's model answer, whatever the row held before
Rescored(old, new) ==
    new = ScoreAgainst(NewAttempt(old.interview_id, old.question_id, old.user_answer),
                       Question(old.question_id).model_answer)

\* C5: every invocation of interview_summary, also one on an interview summarized
\* before, leaves the number of Attempts (of every interview) and each Attempt's
\* interview, question and answer as they were, and overwrites the similarity_score
\* and feedback of the Attempts of the session's interview, whatever they held.
C5_SummaryKeepsAttempts ==
    [][request' = Request("interview_summary", "GET") =>
          /\ Len(attempts') = Len(attempts)
          /\ \A k \in AttemptIds :
                /\ attempts'[k].interview_id = attempts[k].interview_id
                /\ attempts'[k].question_id = attempts[k].question_id
                /\ attempts'[k].user_answer = attempts[k].user_answer
                /\ IF HasInterview /\ attempts[k].interview_id = session["interview_id"]
                   THEN Rescored(attempts[k], attempts'[k])
                   ELSE attempts'[k] = attempts[k]]_vars

\* an interview with Attempts that the summary has processed twice
C5_Witness ==
    \E m, n \in 1..Len(summarized) :
        /\ m < n
        /\ summarized[m] = summarized[n]
        /\ AttemptsOf(summarized[n]) # {}

====
